---- MODULE Spec2Model ----
(***************************************************************************)
(* The Application Controller of the recipe generator (src/App.tsx): the   *)
(* component state, its six handlers and the mount effect, each async      *)
(* handler cut at its await points, together with the two collaborators it *)
(* awaits (the Storage Client and the AI Client).                          *)
(*                                                                         *)
(* A value of type T | null is None (null) or Some(v).  A text on which    *)
(* the controller computes (trim, join) is the sequence of its UTF-16 code *)
(* units; the other strings are never taken apart.                         *)
(* A handler reads the state variables of the render that created it: the  *)
(* values it captured are kept in the record of its invocation.            *)
(***************************************************************************)
EXTENDS Integers, Sequences, FiniteSets

\* ---------------------------------------------------------------- bounds
MaxGen == 2        \* invocations of handleGenerateRecipe that pass validation
MaxOps == 3        \* invocations of the six handlers by the user
MaxTasks == 2      \* login / logout / delete invocations in flight at once

\* ------------------------------------------------------- optional values
None == <<>>
Some(v) == <<v>>
Val(o) == o[1]

\* ------------------------------------------------------------------ text
\* the texts typed into the form: "", " \t\n" (space, tab, line feed) and
\* " a "
InputTexts == {<<>>, <<32, 9, 10>>, <<32, 97, 32>>}
PreferenceSets == {<<>>, <<"Vegan">>}

\* String.prototype.trim strips the WhiteSpace and LineTerminator code
\* points: TAB, LF, VT, FF, CR, SP, NBSP, U+1680, U+2000..U+200A, U+2028,
\* U+2029, U+202F, U+205F, U+3000, U+FEFF
IsWhiteSpace(c) ==
  c \in {9, 10, 11, 12, 13, 32, 160, 5760, 8232, 8233, 8239, 8287, 12288,
         65279} \cup (8192..8202)

RECURSIVE TrimStart(_)
TrimStart(s) ==
  IF s # <<>> /\ IsWhiteSpace(Head(s)) THEN TrimStart(Tail(s)) ELSE s

RECURSIVE TrimEnd(_)
TrimEnd(s) ==
  IF s # <<>> /\ IsWhiteSpace(s[Len(s)])
  THEN TrimEnd(SubSeq(s, 1, Len(s) - 1))
  ELSE s

\* String.prototype.trim
Trim(s) == TrimEnd(TrimStart(s))

\* Array.prototype.join
RECURSIVE Join(_, _)
Join(list, sep) ==
  IF list = <<>> THEN <<>>
  ELSE IF Len(list) = 1 THEN list[1]
  ELSE list[1] \o sep \o Join(Tail(list), sep)

Digit(d) ==
  CASE d = 0 -> "0" [] d = 1 -> "1" [] d = 2 -> "2" [] d = 3 -> "3"
    [] d = 4 -> "4" [] d = 5 -> "5" [] d = 6 -> "6" [] d = 7 -> "7"
    [] d = 8 -> "8" [] d = 9 -> "9"

\* Number.prototype.toString
RECURSIVE ToString(_)
ToString(n) ==
  IF n < 10 THEN Digit(n) ELSE ToString(n \div 10) \o Digit(n % 10)

\* ------------------------------------------------------------ data model
MkRecipe(title, ings) ==
  [title |-> title, description |-> "tasty", ingredients |-> ings,
   instructions |-> <<"cook">>, prepTime |-> "5 min", cookTime |-> "10 min",
   servings |-> "2"]

MkChefTips(tip, pairing) == [cookingTip |-> tip, beveragePairing |-> pairing]

MkSavedRecipe(id, recipe, tips, ts) ==
  [id |-> id, recipe |-> recipe, chefTips |-> tips, timestamp |-> ts]

Users == {"ann", "bob"}

\* ------------------------------------------------------ the AI Client
\* generateRecipe resolves with a Recipe or rejects; what it rejects with is
\* an Error carrying a message, or some other thrown value.
Recipes ==
  {MkRecipe("Omelette", << <<101>>, <<103>> >>),       \* ["e", "g"]
   MkRecipe("Chicken Rice Bowl", << <<99>> >>)}          \* ["c"]

RecipeFailures == {[isError |-> TRUE, message |-> "AI unavailable"],
                   [isError |-> FALSE, message |-> ""]}

\* generateChefTips(title, ingredients) resolves with tips written for that
\* title, or rejects.
TipsFor(title, ings) == {MkChefTips("Tip for " \o title, "Tea")}

\* ----------------------------------------------------------- messages
MsgNoIngredient == "Please enter at least one ingredient."
MsgLoginFailed == "Failed to log in. Please try again."
MsgDeleteFailed == "Could not delete recipe."
MsgCrafting == "Crafting your unique recipe..."
MsgConsulting == "Consulting the chef for pro tips..."
MsgGeneratePrefix == "Failed to generate recipe. "
MsgUnknown == "An unknown error occurred."

\* e instanceof Error ? e.message : 'An unknown error occurred.'
ErrorMessage(e) == IF e.isError THEN e.message ELSE MsgUnknown

GenerateError(e) == MsgGeneratePrefix \o ErrorMessage(e)

\* JavaScript truthiness of a string | null
Truthy(u) == u # None /\ Val(u) # ""

VARIABLES
  ingredients, dietaryPreferences, generatedRecipe, chefTips,
  currentRecipeId, isLoading, loadingMessage, error,
  user, history,
  db,              \* the Storage Client: each user's list
  now,             \* the last reading of Date.now()
  initAuth,        \* the mount effect's invocation
  gen,             \* the invocations of handleGenerateRecipe
  tasks,           \* the invocations of handleLogin/Logout/DeleteRecipe
  ops,             \* how many handlers the user has invoked
  storedAtLogout   \* history variable: the store as the last logout left
                   \* it, while nobody has been logged in since

appVars == <<ingredients, dietaryPreferences, generatedRecipe, chefTips,
             currentRecipeId, isLoading, loadingMessage, error,
             user, history>>
displayVars == <<generatedRecipe, chefTips, currentRecipeId, ingredients>>
vars == <<appVars, db, now, initAuth, gen, tasks, ops, storedAtLogout>>

\* ------------------------------------------------- the Storage Client
\* A call is applied and its result delivered in one step; a call that
\* rejects changes nothing.  login and logout act on the stored session, of
\* which the controller reads only what getUser resolves with at mount:
\* nobody's, or that of ann, who has used the application before.
StoredSessions == {None, Some("ann")}

\* What earlier runs of the application left in the store: one record of
\* ann's, of ingredients ["s"] (SavedRecipe, src/unnamed/part_000 16-21), none of bob's.
StoredAtMount ==
  [u \in Users |->
     IF u = "ann"
     THEN <<MkSavedRecipe(ToString(0), MkRecipe("Soup", << <<115>> >>),
                          Some(MkChefTips("Tip for Soup", "Tea")), 0)>>
     ELSE <<>>]

\* saveRecipe(userId, record) -> updated ordered list (most recent first)
SavedList(list, item) == <<item>> \o list

\* deleteRecipe(userId, recordId) -> updated ordered list
RECURSIVE DeletedList(_, _)
DeletedList(list, id) ==
  IF list = <<>> THEN <<>>
  ELSE IF Head(list).id = id THEN DeletedList(Tail(list), id)
  ELSE <<Head(list)>> \o DeletedList(Tail(list), id)

\* ------------------------------------------------------- invocations
IdleGen ==
  [pc |-> "idle", user |-> None, recipe |-> None, tips |-> None,
   newItem |-> None]

\* A finished invocation keeps what it obtained and what it asked the
\* Storage Client to save: its recipe, its tips and its record.
DoneGen(g) == [g EXCEPT !.pc = "done", !.user = None]

LoginTask(username) ==
  [kind |-> "login", pc |-> "login", username |-> username, item |-> None,
   user |-> None, currentRecipeId |-> None]

LogoutTask ==
  [kind |-> "logout", pc |-> "logout", username |-> "", item |-> None,
   user |-> None, currentRecipeId |-> None]

DeleteTask(item, u, cur) ==
  [kind |-> "delete", pc |-> "deleteRecipe", username |-> "",
   item |-> Some(item), user |-> u, currentRecipeId |-> cur]

RemoveAt(s, k) == SubSeq(s, 1, k - 1) \o SubSeq(s, k + 1, Len(s))

Range(s) == {s[k] : k \in DOMAIN s}

GenIds == 1..MaxGen

\* ----------------------------------------------------------- useState
Init ==
  /\ ingredients = <<>>
  /\ dietaryPreferences = <<>>
  /\ generatedRecipe = None
  /\ chefTips = None
  /\ currentRecipeId = None
  /\ isLoading = FALSE
  /\ loadingMessage = ""
  /\ error = None
  /\ user = None
  /\ history = <<>>
  /\ db = StoredAtMount
  /\ storedAtLogout = None
  /\ now = 1
  /\ initAuth = [pc |-> "getUser", savedUser |-> None]
  /\ gen = [i \in GenIds |-> IdleGen]
  /\ tasks = <<>>
  /\ ops = 0

\* ------------------------------------------------- useEffect: initAuth
\* src/App.tsx 34-37, 40-42: getUser returns
InitAuthGotUser ==
  /\ initAuth.pc = "getUser"
  /\ \/ \E savedUser \in StoredSessions :
          IF Truthy(savedUser)
          THEN /\ user' = savedUser
               /\ initAuth' = [pc |-> "getHistory", savedUser |-> savedUser]
               /\ storedAtLogout' = None
          ELSE /\ initAuth' = [pc |-> "done", savedUser |-> None]
               /\ UNCHANGED <<user, storedAtLogout>>
     \/ /\ initAuth' = [pc |-> "done", savedUser |-> None]
        /\ UNCHANGED <<user, storedAtLogout>>
  /\ UNCHANGED <<ingredients, dietaryPreferences, generatedRecipe, chefTips,
                 currentRecipeId, isLoading, loadingMessage, error, history,
                 db, now, gen, tasks, ops>>

\* src/App.tsx 37-38, 40-42: getHistory returns
InitAuthGotHistory ==
  /\ initAuth.pc = "getHistory"
  /\ \/ history' = db[Val(initAuth.savedUser)]
     \/ history' = history
  /\ initAuth' = [pc |-> "done", savedUser |-> None]
  /\ UNCHANGED <<ingredients, dietaryPreferences, generatedRecipe, chefTips,
                 currentRecipeId, isLoading, loadingMessage, error, user,
                 db, now, gen, tasks>>
  /\ UNCHANGED <<ops, storedAtLogout>>

\* ---------------------------------------------------------- handleLogin
\* src/App.tsx 47-49: up to the await of storageService.login
Login(username) ==
  /\ Len(tasks) < MaxTasks
  /\ tasks' = Append(tasks, LoginTask(username))
  /\ UNCHANGED <<appVars, db, now, initAuth, gen>>
  /\ ops < MaxOps
  /\ ops' = ops + 1
  /\ UNCHANGED storedAtLogout

\* src/App.tsx 50-51: storageService.login resolved
LoginResolved(k) ==
  /\ user' = Some(tasks[k].username)
  /\ tasks' = [tasks EXCEPT ![k].pc = "getHistory"]
  /\ UNCHANGED error

\* src/App.tsx 54-57: catch
LoginRejected(k) ==
  /\ error' = Some(MsgLoginFailed)
  /\ tasks' = RemoveAt(tasks, k)

LoginReturned(k) ==
  /\ tasks[k].pc = "login"
  /\ \/ LoginResolved(k) /\ storedAtLogout' = None
     \/ LoginRejected(k) /\ UNCHANGED <<user, storedAtLogout>>
  /\ UNCHANGED <<ingredients, dietaryPreferences, generatedRecipe, chefTips,
                 currentRecipeId, isLoading, loadingMessage, history, db,
                 now, initAuth, gen, ops>>

\* src/App.tsx 52-53, 54-57: storageService.getHistory returns
LoginGotHistory(k) ==
  /\ tasks[k].pc = "getHistory"
  /\ \/ /\ history' = db[tasks[k].username]
        /\ tasks' = RemoveAt(tasks, k)
        /\ UNCHANGED error
     \/ LoginRejected(k) /\ UNCHANGED history
  /\ UNCHANGED <<ingredients, dietaryPreferences, generatedRecipe, chefTips,
                 currentRecipeId, isLoading, loadingMessage, user,
                 db, now, initAuth, gen>>
  /\ UNCHANGED <<ops, storedAtLogout>>

\* --------------------------------------------------------- handleLogout
\* src/App.tsx 60-62: up to the await of storageService.logout
Logout ==
  /\ Len(tasks) < MaxTasks
  /\ tasks' = Append(tasks, LogoutTask)
  /\ UNCHANGED <<appVars, db, now, initAuth, gen>>
  /\ ops < MaxOps
  /\ ops' = ops + 1
  /\ UNCHANGED storedAtLogout

\* src/App.tsx 63-68: storageService.logout resolved
LogoutResolved ==
  /\ user' = None
  /\ history' = <<>>
  /\ generatedRecipe' = None
  /\ chefTips' = None
  /\ currentRecipeId' = None
  /\ ingredients' = <<>>

\* src/App.tsx 62-72: storageService.logout returns
LogoutReturned(k) ==
  /\ tasks[k].pc = "logout"
  /\ \/ LogoutResolved /\ storedAtLogout' = Some(db)
     \/ UNCHANGED <<user, history, generatedRecipe, chefTips,
                    currentRecipeId, ingredients, storedAtLogout>>
  /\ tasks' = RemoveAt(tasks, k)
  /\ UNCHANGED <<dietaryPreferences, isLoading, loadingMessage, error,
                 db, now, initAuth, gen, ops>>

\* ---------------------------------------------- handleSelectHistoryItem
\* a select that leaves the error
SelectHistoryItemKeepsError(item) ==
  /\ item \in Range(history)
  /\ generatedRecipe' = Some(item.recipe)
  /\ chefTips' = item.chefTips
  /\ currentRecipeId' = Some(item.id)
  /\ error' = error
  /\ ingredients' = Join(item.recipe.ingredients, <<44, 32>>)
  /\ UNCHANGED <<dietaryPreferences, isLoading, loadingMessage, user, history,
                 db, now, initAuth, gen, tasks>>
  /\ ops < MaxOps
  /\ ops' = ops + 1
  /\ UNCHANGED storedAtLogout

\* a select that adds the record's ingredients to the text already there
SelectHistoryItemAppends(item) ==
  /\ item \in Range(history)
  /\ generatedRecipe' = Some(item.recipe)
  /\ chefTips' = item.chefTips
  /\ currentRecipeId' = Some(item.id)
  /\ error' = None
  /\ ingredients' = ingredients \o Join(item.recipe.ingredients, <<44, 32>>)
  /\ UNCHANGED <<dietaryPreferences, isLoading, loadingMessage, user, history,
                 db, now, initAuth, gen, tasks>>
  /\ ops < MaxOps
  /\ ops' = ops + 1
  /\ UNCHANGED storedAtLogout

\* src/App.tsx 75-81
SelectHistoryItem(item) ==
  /\ item \in Range(history)
  /\ generatedRecipe' = Some(item.recipe)
  /\ chefTips' = item.chefTips
  /\ currentRecipeId' = Some(item.id)
  /\ error' = None
  /\ ingredients' = Join(item.recipe.ingredients, <<44, 32>>)
  /\ UNCHANGED <<dietaryPreferences, isLoading, loadingMessage, user, history,
                 db, now, initAuth, gen, tasks>>
  /\ ops < MaxOps
  /\ ops' = ops + 1
  /\ UNCHANGED storedAtLogout

\* --------------------------------------------------- handleDeleteRecipe
\* src/App.tsx 83-86: up to the await of storageService.deleteRecipe; user
\* and currentRecipeId are those of the render whose handler was clicked
DeleteRecipe(item) ==
  /\ item \in Range(history)
  /\ IF Truthy(user)
     THEN /\ Len(tasks) < MaxTasks
          /\ tasks' = Append(tasks, DeleteTask(item, user, currentRecipeId))
     ELSE tasks' = tasks
  /\ UNCHANGED <<appVars, db, now, initAuth, gen>>
  /\ ops < MaxOps
  /\ ops' = ops + 1
  /\ UNCHANGED storedAtLogout

\* src/App.tsx 90: the currentRecipeId of the render whose handler was clicked
IsDisplayed(k) == tasks[k].currentRecipeId = Some(Val(tasks[k].item).id)

\* src/App.tsx 87-95: storageService.deleteRecipe resolved
DeleteResolved(k) ==
  LET u == Val(tasks[k].user)
      updatedHistory == DeletedList(db[u], Val(tasks[k].item).id)
  IN /\ db' = [db EXCEPT ![u] = updatedHistory]
     /\ history' = updatedHistory
     /\ IF IsDisplayed(k)
        THEN /\ generatedRecipe' = None
             /\ chefTips' = None
             /\ currentRecipeId' = None
             /\ ingredients' = <<>>
        ELSE UNCHANGED displayVars
     /\ UNCHANGED error

\* src/App.tsx 96-99: catch
DeleteRejected(k) ==
  /\ error' = Some(MsgDeleteFailed)
  /\ UNCHANGED <<db, history, displayVars>>

DeleteReturned(k) ==
  /\ tasks[k].pc = "deleteRecipe"
  /\ \/ DeleteResolved(k)
     \/ DeleteRejected(k)
  /\ tasks' = RemoveAt(tasks, k)
  /\ UNCHANGED <<dietaryPreferences, isLoading, loadingMessage, user,
                 now, initAuth, gen>>
  /\ UNCHANGED <<ops, storedAtLogout>>

\* ------------------------------------------------- handleGenerateRecipe
\* src/App.tsx 189: the form that offers the generate action is rendered
InputRendered == generatedRecipe = None /\ ~isLoading

FirstIdle(i) == gen[i].pc = "idle" /\ \A j \in 1..(i - 1) : gen[j].pc # "idle"

\* the validation without trim: only the empty text is refused
NoIngredientUntrimmed(text) == text = <<>>

\* src/App.tsx 104: !ingredients.trim()
NoIngredient(text) == Trim(text) = <<>>

\* src/App.tsx 103-117: up to the await of generateRecipe
GenerateRecipe ==
  /\ InputRendered
  /\ IF NoIngredient(ingredients)
     THEN /\ error' = Some(MsgNoIngredient)
          /\ UNCHANGED <<isLoading, generatedRecipe, chefTips, currentRecipeId,
                         loadingMessage, gen>>
     ELSE /\ \E i \in GenIds :
               /\ FirstIdle(i)
               /\ gen' = [gen EXCEPT ![i] =
                            [IdleGen EXCEPT !.pc = "recipe", !.user = user]]
          /\ isLoading' = TRUE
          /\ error' = None
          /\ generatedRecipe' = None
          /\ chefTips' = None
          /\ currentRecipeId' = None
          /\ loadingMessage' = MsgCrafting
  /\ UNCHANGED <<ingredients, dietaryPreferences, user, history,
                 db, now, initAuth, tasks>>
  /\ ops < MaxOps
  /\ ops' = ops + 1
  /\ UNCHANGED storedAtLogout

\* a finally that resets the flag and leaves the message
FinallyKeepsMessage ==
  /\ isLoading' = FALSE
  /\ loadingMessage' = loadingMessage

\* src/App.tsx 151-154: finally
Finally ==
  /\ isLoading' = FALSE
  /\ loadingMessage' = ""

\* the recipe is shown only while the loading flag is still set
RecipeResolvedWhileLoading(i, r) ==
  /\ generatedRecipe' = IF isLoading THEN Some(r) ELSE generatedRecipe
  /\ loadingMessage' = MsgConsulting
  /\ gen' = [gen EXCEPT ![i].pc = "tips", ![i].recipe = Some(r)]
  /\ UNCHANGED <<isLoading, error>>

\* the recipe is taken but not shown
RecipeResolvedNotShown(i, r) ==
  /\ generatedRecipe' = generatedRecipe
  /\ loadingMessage' = MsgConsulting
  /\ gen' = [gen EXCEPT ![i].pc = "tips", ![i].recipe = Some(r)]
  /\ UNCHANGED <<isLoading, error>>

\* src/App.tsx 118-123: generateRecipe resolved with r
RecipeResolved(i, r) ==
  /\ generatedRecipe' = Some(r)
  /\ loadingMessage' = MsgConsulting
  /\ gen' = [gen EXCEPT ![i].pc = "tips", ![i].recipe = Some(r)]
  /\ UNCHANGED <<isLoading, error>>

\* the failure of the recipe call swallowed, the Generate going on to the tips
RecipeRejectedGoesOn(i, e) ==
  /\ gen' = [gen EXCEPT ![i].pc = "tips"]
  /\ UNCHANGED <<error, isLoading, loadingMessage, generatedRecipe>>

\* the failure reason shown without the prefix
RecipeRejectedNoPrefix(i, e) ==
  /\ error' = Some(ErrorMessage(e))
  /\ Finally
  /\ gen' = [gen EXCEPT ![i] = DoneGen(gen[i])]
  /\ UNCHANGED generatedRecipe

\* src/App.tsx 147-154: generateRecipe rejected with e
RecipeRejected(i, e) ==
  /\ error' = Some(GenerateError(e))
  /\ Finally
  /\ gen' = [gen EXCEPT ![i] = DoneGen(gen[i])]
  /\ UNCHANGED generatedRecipe

RecipeReturned(i) ==
  /\ gen[i].pc = "recipe"
  /\ \/ \E r \in Recipes : RecipeResolved(i, r)
     \/ \E e \in RecipeFailures : RecipeRejected(i, e)
  /\ UNCHANGED <<ingredients, dietaryPreferences, chefTips, currentRecipeId,
                 user, history, db, now, initAuth, tasks>>
  /\ UNCHANGED <<ops, storedAtLogout>>

\* src/App.tsx 130: the user of the render that created the callback
LoggedIn(i) == Truthy(gen[i].user)

\* the record built from the displayed tips instead of the local ones
NewItemDisplayedTips(recipe, tips, t1, t2) ==
  MkSavedRecipe(ToString(t1), recipe, chefTips, t2)

\* Date.now() read after it read t: the clock does not go back, and the
\* millisecond has turned since or has not. The program only compares
\* readings for equality (the ids), so one turn stands for any later reading.
Readings(t) == {t, t + 1}

\* src/App.tsx 131-136: t1 the reading of line 132, t2 that of line 135
NewItem(recipe, tips, t1, t2) == MkSavedRecipe(ToString(t1), recipe, tips, t2)

\* src/App.tsx 129-138, 151-154: after the tips try/catch, tips being what
\* generateChefTips resolved with, or null
AfterTips(i, tips) ==
  IF LoggedIn(i)
  THEN /\ \E t1 \in Readings(now) : \E t2 \in Readings(t1) :
            /\ gen' = [gen EXCEPT
                         ![i].pc = "save", ![i].tips = tips,
                         ![i].newItem =
                           Some(NewItem(Val(gen[i].recipe), tips, t1, t2))]
            /\ now' = t2
       /\ UNCHANGED <<isLoading, loadingMessage>>
  ELSE /\ gen' = [gen EXCEPT ![i] = DoneGen([gen[i] EXCEPT !.tips = tips])]
       /\ Finally
       /\ UNCHANGED now

\* src/App.tsx 123-124: generateChefTips resolved with t
TipsResolved(i, t) ==
  /\ chefTips' = Some(t)
  /\ AfterTips(i, Some(t))
  /\ UNCHANGED error

\* src/App.tsx 125-127: generateChefTips rejected
TipsRejected(i) ==
  /\ AfterTips(i, None)
  /\ UNCHANGED <<chefTips, error>>

TipsReturned(i) ==
  /\ gen[i].pc = "tips"
  /\ LET recipe == Val(gen[i].recipe) IN
     \/ \E t \in TipsFor(recipe.title, recipe.ingredients) : TipsResolved(i, t)
     \/ TipsRejected(i)
  /\ UNCHANGED <<ingredients, dietaryPreferences, generatedRecipe,
                 currentRecipeId, user, history, db, initAuth, tasks>>
  /\ UNCHANGED <<ops, storedAtLogout>>

\* the save whose returned list is not put into history
SaveResolvedKeepsHistory(i) ==
  LET u == Val(gen[i].user)
      updatedHistory == SavedList(db[u], Val(gen[i].newItem))
  IN /\ db' = [db EXCEPT ![u] = updatedHistory]
     /\ history' = history
     /\ currentRecipeId' = Some(Val(gen[i].newItem).id)
     /\ UNCHANGED error

\* src/App.tsx 138-140: storageService.saveRecipe resolved
SaveResolved(i) ==
  LET u == Val(gen[i].user)
      updatedHistory == SavedList(db[u], Val(gen[i].newItem))
  IN /\ db' = [db EXCEPT ![u] = updatedHistory]
     /\ history' = updatedHistory
     /\ currentRecipeId' = Some(Val(gen[i].newItem).id)
     /\ UNCHANGED error

\* the save without its own try/catch: the rejection reaches the outer catch
SaveRejectedUncaught(i) ==
  /\ error' = Some(GenerateError([isError |-> TRUE, message |-> "save failed"]))
  /\ UNCHANGED <<db, history, currentRecipeId>>

\* src/App.tsx 141-144: storageService.saveRecipe rejected
SaveRejected(i) ==
  UNCHANGED <<db, history, currentRecipeId, error>>

\* src/App.tsx 138-145, 151-154
SaveReturned(i) ==
  /\ gen[i].pc = "save"
  /\ \/ SaveResolved(i)
     \/ SaveRejected(i)
  /\ Finally
  /\ gen' = [gen EXCEPT ![i] = DoneGen(gen[i])]
  /\ UNCHANGED <<ingredients, dietaryPreferences, generatedRecipe, chefTips,
                 user, now, initAuth, tasks>>
  /\ UNCHANGED <<ops, storedAtLogout>>

\* ------------------------------------------------------ handleStartOver
\* a start-over that leaves the loading flag
StartOverKeepsLoading ==
  /\ ingredients' = <<>>
  /\ dietaryPreferences' = <<>>
  /\ generatedRecipe' = None
  /\ chefTips' = None
  /\ currentRecipeId' = None
  /\ error' = None
  /\ isLoading' = isLoading
  /\ UNCHANGED <<loadingMessage, user, history, db, now, initAuth,
                 gen, tasks>>
  /\ ops < MaxOps
  /\ ops' = ops + 1
  /\ UNCHANGED storedAtLogout

\* src/App.tsx 157-165
StartOver ==
  /\ ingredients' = <<>>
  /\ dietaryPreferences' = <<>>
  /\ generatedRecipe' = None
  /\ chefTips' = None
  /\ currentRecipeId' = None
  /\ error' = None
  /\ isLoading' = FALSE
  /\ UNCHANGED <<loadingMessage, user, history, db, now, initAuth,
                 gen, tasks>>
  /\ ops < MaxOps
  /\ ops' = ops + 1
  /\ UNCHANGED storedAtLogout

\* --------------------------------------------------- the inline setters
\* src/App.tsx 189-196: IngredientInput edits the text
SetIngredients(text) ==
  /\ InputRendered
  /\ ingredients' = text
  /\ UNCHANGED <<dietaryPreferences, generatedRecipe, chefTips,
                 currentRecipeId, isLoading, loadingMessage, error, user,
                 history, db, now, initAuth, gen, tasks>>
  /\ UNCHANGED <<ops, storedAtLogout>>

\* src/App.tsx 189-196: IngredientInput edits the preference tags
SetDietaryPreferences(tags) ==
  /\ InputRendered
  /\ dietaryPreferences' = tags
  /\ UNCHANGED <<ingredients, generatedRecipe, chefTips,
                 currentRecipeId, isLoading, loadingMessage, error, user,
                 history, db, now, initAuth, gen, tasks>>
  /\ UNCHANGED <<ops, storedAtLogout>>

\* ----------------------------------------------------------- the render
\* src/App.tsx 189-209: the regions of the main card whose guard holds
Rendered ==
  {r \in {"Input", "Loading", "Error", "Result"} :
     \/ r = "Input" /\ generatedRecipe = None /\ ~isLoading
     \/ r = "Loading" /\ isLoading
     \/ r = "Error" /\ Truthy(error) /\ ~isLoading
     \/ r = "Result" /\ generatedRecipe # None /\ ~isLoading}

\* ------------------------------------------------------------- the spec
Next ==
  \/ InitAuthGotUser
  \/ InitAuthGotHistory
  \/ \E u \in Users : Login(u)
  \/ \E k \in DOMAIN tasks : LoginReturned(k)
  \/ \E k \in DOMAIN tasks : LoginGotHistory(k)
  \/ Logout
  \/ \E k \in DOMAIN tasks : LogoutReturned(k)
  \/ \E item \in Range(history) : SelectHistoryItem(item)
  \/ \E item \in Range(history) : DeleteRecipe(item)
  \/ \E k \in DOMAIN tasks : DeleteReturned(k)
  \/ GenerateRecipe
  \/ \E i \in GenIds : RecipeReturned(i)
  \/ \E i \in GenIds : TipsReturned(i)
  \/ \E i \in GenIds : SaveReturned(i)
  \/ StartOver
  \/ \E text \in InputTexts : SetIngredients(text)
  \/ \E tags \in PreferenceSets : SetDietaryPreferences(tags)

Spec == Init /\ [][Next]_vars

\* Every outbound call of a Generate eventually returns.
FairSpec ==
  /\ Spec
  /\ \A i \in GenIds :
       /\ WF_vars(RecipeReturned(i))
       /\ WF_vars(TipsReturned(i))
       /\ WF_vars(SaveReturned(i))

\* ======================================================== the properties
\* What a step did, read off the pair of states.

\* a text of white space only (the empty text included)
Blank(text) == \A k \in DOMAIN text : IsWhiteSpace(text[k])

\* the recipe call of Generate i resolved
RecipeOk(i) == gen[i].pc = "recipe" /\ gen'[i].pc = "tips"

\* the tips call of Generate i returned
TipsDone(i) == gen[i].pc = "tips" /\ gen'[i].pc # "tips"

\* Generate i finished
Finished(i) == gen[i].pc \in {"recipe", "tips", "save"} /\ gen'[i].pc = "done"

\* the save call of Generate i resolved / rejected
SaveOk(i) == gen[i].pc = "save" /\ gen'[i].pc = "done" /\ db' # db
SaveFailed(i) == gen[i].pc = "save" /\ gen'[i].pc = "done" /\ db' = db

\* Login k failed, at its login call or at its history fetch
LoginFailed(k) ==
  /\ tasks[k].kind = "login"
  /\ tasks' = RemoveAt(tasks, k)
  /\ error' = Some(MsgLoginFailed)
  /\ history' = history

\* the login call of Login k resolved
LoginOk(k) ==
  /\ tasks[k].kind = "login" /\ tasks[k].pc = "login"
  /\ Len(tasks') = Len(tasks) /\ tasks'[k].pc = "getHistory"

\* the history fetch of Login k returned
LoginHistoryDone(k) ==
  /\ tasks[k].kind = "login" /\ tasks[k].pc = "getHistory"
  /\ tasks' = RemoveAt(tasks, k)

\* Logout k logged a user out
LoggedOut(k) ==
  /\ tasks[k].kind = "logout"
  /\ tasks' = RemoveAt(tasks, k)
  /\ user # None /\ user' = None

\* Delete k removed its record from the store
DeleteOk(k) ==
  /\ tasks[k].kind = "delete"
  /\ tasks' = RemoveAt(tasks, k)
  /\ db' # db

DisplayCleared ==
  /\ generatedRecipe' = None
  /\ chefTips' = None
  /\ currentRecipeId' = None
  /\ ingredients' = <<>>

\* ------------------------------------------------------------------- C1
\* C1: when the tips call of a Generate has returned, the Generate goes on
\* to save a record if and only if a user is logged in at that moment, and
\* it saves under that user.
C1_SavesIffLoggedInAtCompletion ==
  [][\A i \in GenIds :
       TipsDone(i) =>
         /\ (gen'[i].pc = "save") <=> Truthy(user)
         /\ (gen'[i].pc = "save") => (gen'[i].user = user)]_vars

\* ------------------------------------------------------------------- C2
\* C2 as stated: when a Generate whose recipe call succeeded finishes, the
\* loading flag is false and the displayed recipe is the returned recipe.
C2_ReturnedRecipeDisplayedAtFinish ==
  [][\A i \in GenIds :
       (Finished(i) /\ gen'[i].recipe # None) =>
         (~isLoading' /\ generatedRecipe' = gen'[i].recipe)]_vars

\* C2 amended: the step at which the recipe call of a Generate succeeds
\* displays the returned recipe, no later step of that Generate changes the
\* displayed recipe, and the loading flag is false when the Generate
\* finishes.
C2_ReturnedRecipeDisplayedOnReturn ==
  [][\A i \in GenIds :
       /\ RecipeOk(i) => (generatedRecipe' = gen'[i].recipe)
       /\ (gen[i].pc \in {"tips", "save"} /\ gen'[i] # gen[i]) =>
            (generatedRecipe' = generatedRecipe)
       /\ Finished(i) => ~isLoading']_vars

C2_Witness ==
  \E i \in GenIds :
    /\ gen[i].pc = "done"
    /\ gen[i].recipe # None
    /\ generatedRecipe = gen[i].recipe
    /\ ~isLoading

\* ------------------------------------------------------------------- C3
\* C3: when a Login fails, at its login call or at its history fetch, the
\* generic login error is shown and the user is not the username of that
\* Login because of it: a Login that has written nothing leaves the user,
\* and one that fails later has not left its username there.
C3_FailedLoginSetsNoUser ==
  [][\A k \in DOMAIN tasks :
       LoginFailed(k) =>
         /\ error' = Some(MsgLoginFailed)
         /\ IF tasks[k].pc = "login"
            THEN user' = user
            ELSE user' # Some(tasks[k].username)]_vars

\* ------------------------------------------------------------------- C4
\* C4: a Generate invoked with empty or white-space-only ingredients shows
\* the validation error, starts no call and leaves the loading flag, the
\* loading message and the display as they were.
C4_BlankIngredientsRefused ==
  [][(GenerateRecipe /\ Blank(ingredients)) =>
       /\ error' = Some(MsgNoIngredient)
       /\ UNCHANGED <<gen, tasks, db, isLoading, loadingMessage,
                      generatedRecipe, chefTips, currentRecipeId, history>>]_vars

C4_Witness ==
  /\ ingredients = <<32, 9, 10>>
  /\ error = Some(MsgNoIngredient)
  /\ ~isLoading
  /\ \A i \in GenIds : gen[i].pc = "idle"

\* ------------------------------------------------------------------- C5
\* C5 as stated: when a Generate whose recipe call succeeded and whose tips
\* call failed finishes, the displayed tips are absent and the error is
\* absent, and the record it saved carries absent tips.
C5_NoTipsNoErrorAtFinish ==
  [][\A i \in GenIds :
       (Finished(i) /\ gen'[i].recipe # None /\ gen'[i].tips = None) =>
         /\ chefTips' = None
         /\ error' = None
         /\ gen'[i].newItem # None => Val(gen'[i].newItem).chefTips = None]_vars

\* C5 amended: a Generate whose tips call fails writes neither the
\* displayed tips nor the error, at that step or at any later step of its
\* own, and the record it builds for saving carries absent tips.
C5_FailedTipsWriteNothing ==
  [][\A i \in GenIds :
       /\ (TipsDone(i) /\ gen'[i].tips = None) =>
            /\ UNCHANGED <<chefTips, error>>
            /\ gen'[i].newItem # None => Val(gen'[i].newItem).chefTips = None
       /\ (gen[i].pc = "save" /\ gen[i].tips = None /\ Finished(i)) =>
            /\ UNCHANGED <<chefTips, error>>
            /\ Val(gen'[i].newItem).chefTips = None]_vars

C5_Witness ==
  \E i \in GenIds :
    /\ gen[i].pc = "done"
    /\ gen[i].recipe # None
    /\ gen[i].tips = None
    /\ gen[i].newItem # None
    /\ \E u \in Users : Val(gen[i].newItem) \in Range(db[u])
    /\ generatedRecipe = gen[i].recipe
    /\ chefTips = None
    /\ error = None

\* ------------------------------------------------------------------- C6
\* C6 as stated: when a user is logged in and the save of a Generate
\* succeeds, the history is exactly one record longer than before and the
\* added record carries the recipe and the tips of that Generate.
C6_HistoryOneLonger ==
  [][\A i \in GenIds :
       (SaveOk(i) /\ Truthy(user)) =>
         /\ Len(history') = Len(history) + 1
         /\ \E k \in DOMAIN history' :
              /\ history'[k].recipe = Val(gen[i].recipe)
              /\ history'[k].chefTips = gen[i].tips]_vars

\* C6 amended: when the save of a Generate succeeds, the history becomes
\* the list the Storage Client returns: the list stored for the user the
\* Generate saved under, with exactly one record added, which carries the
\* recipe and the tips of that Generate; the selection becomes that record.
C6_HistoryIsStoredListPlusRecord ==
  [][\A i \in GenIds :
       SaveOk(i) =>
         LET u == Val(gen[i].user) IN
           /\ history' = db'[u]
           /\ Len(history') = Len(db[u]) + 1
           /\ \E k \in DOMAIN history' :
                /\ history'[k].recipe = Val(gen[i].recipe)
                /\ history'[k].chefTips = gen[i].tips
                /\ currentRecipeId' = Some(history'[k].id)
                /\ RemoveAt(history', k) = db[u]]_vars

C6_Witness ==
  \E i \in GenIds, u \in Users :
    /\ gen[i].pc = "done"
    /\ gen[i].newItem # None
    /\ user = Some(u)
    /\ history = db[u]
    /\ Len(history) = 2
    /\ history[1] = Val(gen[i].newItem)
    /\ history[1].recipe = Val(gen[i].recipe)
    /\ currentRecipeId = Some(history[1].id)

\* ------------------------------------------------------------------- C7
\* C7: when the save of a Generate fails, the Generate finishes with the
\* displayed recipe and tips, the error, the history and the selection as
\* they were, and the loading flag false.
C7_FailedSaveIsSilent ==
  [][\A i \in GenIds :
       SaveFailed(i) =>
         /\ UNCHANGED <<generatedRecipe, chefTips, error, history,
                        currentRecipeId>>
         /\ ~isLoading']_vars

C7_Witness ==
  \E i \in GenIds :
    /\ gen[i].pc = "done"
    /\ gen[i].newItem # None
    /\ \A u \in Users : Val(gen[i].newItem) \notin Range(db[u])
    /\ generatedRecipe = gen[i].recipe
    /\ error = None
    /\ currentRecipeId = None
    /\ ~isLoading

\* ------------------------------------------------------------------- C8
\* C8: when a Delete succeeds, the display is cleared if the deleted record
\* is the one displayed at that moment, and left as it is otherwise.
C8_DeleteClearsDisplayedRecordOnly ==
  [][\A k \in DOMAIN tasks :
       DeleteOk(k) =>
         IF currentRecipeId = Some(Val(tasks[k].item).id)
         THEN DisplayCleared
         ELSE UNCHANGED displayVars]_vars

\* ------------------------------------------------------------------- C9
\* C9: a Logout that logs a user out clears the user, the history and the
\* display and removes nothing from the store; when the login call of the
\* next Login resolves, the list stored for its user is the list stored
\* when the Logout completed, and that Login sets the history to the
\* stored list unless its history fetch fails.
C9_LogoutKeepsStoredHistory ==
  [][\A k \in DOMAIN tasks :
       /\ LoggedOut(k) =>
            (history' = <<>> /\ DisplayCleared /\ db' = db)
       /\ (LoginOk(k) /\ storedAtLogout # None) =>
            (db[tasks[k].username] = Val(storedAtLogout)[tasks[k].username])
       /\ LoginHistoryDone(k) =>
            \/ history' = db[tasks[k].username]
            \/ history' = history /\ error' = Some(MsgLoginFailed)]_vars

\* ------------------------------------------------------------------ C10
\* C10: every Generate that has entered the loading state eventually
\* finishes, and the step that finishes it leaves the loading flag false
\* and the loading message empty.
C10_LoadingEnds ==
  /\ \A i \in GenIds :
       (gen[i].pc \in {"recipe", "tips", "save"}) ~> (gen[i].pc = "done")
  /\ [][\A i \in GenIds :
          Finished(i) => (~isLoading' /\ loadingMessage' = "")]_vars

C10_Witness ==
  \E i \in GenIds :
    /\ gen[i].pc = "done"
    /\ gen[i].newItem # None
    /\ ~isLoading
    /\ loadingMessage = ""

\* ------------------------------------------------------------------ C11
\* the five fields a select writes, and what selecting `item` makes of them
Shown == <<generatedRecipe, chefTips, currentRecipeId, error, ingredients>>

Selected(item) ==
  <<Some(item.recipe), item.chefTips, Some(item.id), None,
    Join(item.recipe.ingredients, <<44, 32>>)>>

\* C11: selecting a record yields the same recipe, tips, selection, error
\* and ingredients text from every starting state, so that selecting it
\* again right after changes none of them.
C11_SelectIsIdempotent ==
  [][\A item \in Range(history) :
       SelectHistoryItem(item) =>
         /\ Shown' = Selected(item)
         /\ (Shown = Selected(item)) => (Shown' = Shown)]_vars

\* the stored record shown as selected, the same select still on offer
C11_Witness ==
  \E item \in Range(history) :
    /\ Shown = Selected(item)
    /\ ingredients = <<115>>
    /\ ops = 2

\* ------------------------------------------------------------------ C12
\* C12: Start-over sets the ingredients text, the preference tags, the
\* recipe, the tips, the selection, the error and the loading flag to
\* their initial values, leaves the user and the history as they are and
\* issues no call: no invocation starts or moves and the store is as it was.
C12_StartOverResets ==
  [][StartOver =>
       /\ ingredients' = <<>>
       /\ dietaryPreferences' = <<>>
       /\ generatedRecipe' = None
       /\ chefTips' = None
       /\ currentRecipeId' = None
       /\ error' = None
       /\ isLoading' = FALSE
       /\ UNCHANGED <<user, history, db, gen, tasks, initAuth>>]_vars

\* started over while a Generate of a logged-in user is loading
C12_Witness ==
  /\ \E i \in GenIds : gen[i].pc = "recipe"
  /\ ~isLoading
  /\ loadingMessage = MsgCrafting
  /\ ingredients = <<>>
  /\ generatedRecipe = None
  /\ error = None
  /\ user # None
  /\ history # <<>>

\* ------------------------------------------------------------------ C13
\* Generate i awaits one of its calls
InFlight(i) == gen[i].pc \in {"recipe", "tips", "save"}

\* Generate i passed the validation and issued its recipe call
GenerateStarted(i) == gen[i].pc = "idle" /\ gen'[i].pc = "recipe"

\* C13: a Generate is never started while another Generate is in flight
\* (the generate action being on offer only while the input form is
\* rendered, the other handlers at all times).
C13_NoGenerateWhileInFlight ==
  [][\A i \in GenIds :
       GenerateStarted(i) => \A j \in GenIds \ {i} : ~InFlight(j)]_vars

\* ------------------------------------------------------------------ C14
\* C14: the history holds only records stored for the logged-in user, and
\* is empty when no user is logged in.
C14_HistoryOfCurrentUser ==
  IF Truthy(user)
  THEN Range(history) \subseteq Range(db[Val(user)])
  ELSE history = <<>>

\* ------------------------------------------------------------------ C15
\* a step of Generate, Start-over or Select-history-item
GenerateStep == GenerateRecipe \/ gen' # gen
SelectStep == \E item \in Range(history) : SelectHistoryItem(item)

\* a step of Login, Logout or Delete-recipe
TaskStep == tasks' # tasks

\* C15 as stated: the display region changes only through Generate,
\* Start-over and Select-history-item; Select leaves the region in Result,
\* showing the selected record; Login, Logout and Delete-recipe never
\* change the region.
C15_RegionChangesByThreeHandlers ==
  [][/\ (Rendered' # Rendered) => (GenerateStep \/ StartOver \/ SelectStep)
     /\ \A item \in Range(history) :
          SelectHistoryItem(item) =>
            (Rendered' = {"Result"} /\ generatedRecipe' = Some(item.recipe))
     /\ TaskStep => (Rendered' = Rendered)]_vars

\* C15 amended: the region changes only through Generate, Start-over,
\* Select-history-item, Login, Logout and Delete-recipe; Select makes the
\* selected record the displayed one and leaves the region in Result, or in
\* Loading while the loading flag is set; Login, Logout and Delete-recipe
\* never enter or leave Loading, and change the region only by showing
\* their error (a failed Login or Delete) or by taking Result to Input (a
\* Logout, a Delete of the displayed record).
C15_RegionChanges ==
  [][/\ (Rendered' # Rendered) =>
          (GenerateStep \/ StartOver \/ SelectStep \/ TaskStep)
     /\ \A item \in Range(history) :
          SelectHistoryItem(item) =>
            /\ generatedRecipe' = Some(item.recipe)
            /\ Rendered' = IF isLoading THEN {"Loading"} ELSE {"Result"}
     /\ TaskStep =>
          /\ isLoading' = isLoading
          /\ (Rendered' # Rendered) =>
               \/ /\ Rendered' = Rendered \cup {"Error"}
                  /\ error' \in {Some(MsgLoginFailed), Some(MsgDeleteFailed)}
               \/ /\ "Result" \in Rendered
                  /\ Rendered' = (Rendered \ {"Result"}) \cup {"Input"}
                  /\ \E k \in DOMAIN tasks :
                       /\ tasks[k].kind \in {"logout", "delete"}
                       /\ tasks' = RemoveAt(tasks, k)]_vars

\* the stored record selected while a Generate awaits its recipe call
C15_Witness ==
  /\ \E i \in GenIds :
       /\ gen[i].pc = "recipe"
       /\ \A j \in GenIds \ {i} : gen[j].pc = "idle"
  /\ \E item \in Range(history) : Shown = Selected(item)
  /\ Rendered = {"Loading"}

\* ------------------------------------------------------------------ C16
\* C16: Start-over and Logout leave every Generate in flight as it is, and
\* whatever happened since it was started, a Generate writes the recipe
\* when its recipe call resolves, the tips when its tips call resolves, and
\* the history and the selection when its save resolves.
C16_InFlightGenerateStillWrites ==
  [][/\ StartOver => (gen' = gen)
     /\ \A k \in DOMAIN tasks : LoggedOut(k) => (gen' = gen)
     /\ \A i \in GenIds :
          /\ RecipeOk(i) => (generatedRecipe' = gen'[i].recipe)
          /\ (TipsDone(i) /\ gen'[i].tips # None) =>
               (chefTips' = gen'[i].tips)
          /\ SaveOk(i) =>
               /\ history' = db'[Val(gen[i].user)]
               /\ currentRecipeId' = Some(Val(gen[i].newItem).id)]_vars

\* nobody is logged in, and the recipe, the tips, the history and the
\* selection are those of a Generate that was started by a user
C16_Witness ==
  \E i \in GenIds :
    /\ user = None
    /\ gen[i].pc = "done"
    /\ gen[i].newItem # None
    /\ gen[i].tips # None
    /\ generatedRecipe = gen[i].recipe
    /\ chefTips = gen[i].tips
    /\ history # <<>>
    /\ history[1] = Val(gen[i].newItem)
    /\ currentRecipeId = Some(history[1].id)
    /\ ~isLoading

\* ------------------------------------------------------------------ C17
\* the recipe call of Generate i rejected
RecipeFailed(i) == gen[i].pc = "recipe" /\ gen'[i].pc = "done"

\* the fixed prefix followed by the reason of some failure
PrefixedReason(msg) ==
  \E e \in RecipeFailures :
    msg = Some("Failed to generate recipe. " \o
               (IF e.isError THEN e.message ELSE "An unknown error occurred."))

\* C17 as stated: when the recipe call of a Generate fails, the error is
\* the prefix followed by the failure reason, no recipe is displayed when
\* the Generate finishes, and it issues neither the tips call nor the save.
C17_FailedRecipeLeavesNoRecipe ==
  [][\A i \in GenIds :
       RecipeFailed(i) =>
         /\ PrefixedReason(error')
         /\ generatedRecipe' = None
         /\ gen'[i].tips = None /\ gen'[i].newItem = None]_vars

\* C17 amended: when the recipe call of a Generate fails, the step sets the
\* error to the prefix followed by the failure reason and the loading flag
\* to false, finishes the Generate, which has issued neither the tips call
\* nor the save and never moves again, and writes nothing else: the
\* recipe, the tips, the selection, the history and the store stay as they
\* were.
C17_FailedRecipeWritesErrorOnly ==
  [][\A i \in GenIds :
       /\ RecipeFailed(i) =>
            /\ PrefixedReason(error')
            /\ ~isLoading'
            /\ UNCHANGED <<generatedRecipe, chefTips, currentRecipeId,
                           history, db>>
            /\ gen'[i].tips = None /\ gen'[i].newItem = None
       /\ (gen[i].pc = "done") => (gen'[i] = gen[i])]_vars

C17_Witness ==
  \E i \in GenIds :
    /\ gen[i].pc = "done"
    /\ gen[i].recipe = None
    /\ error = Some("Failed to generate recipe. An unknown error occurred.")
    /\ generatedRecipe = None
    /\ ~isLoading

\* ------------------------------------------------------------------ C18
\* C18: a Generate awaits one call at a time, in order: its recipe call is
\* issued when it starts, its tips call only at the step at which the
\* recipe call resolves with a recipe, and its save only at the step at
\* which the tips call returns.
C18_CallsInOrder ==
  [][\A i \in GenIds :
       /\ (gen'[i].pc = "recipe" /\ gen[i].pc # "recipe") =>
            (gen[i].pc = "idle")
       /\ (gen'[i].pc = "tips" /\ gen[i].pc # "tips") =>
            (gen[i].pc = "recipe" /\ gen'[i].recipe # None)
       /\ (gen'[i].pc = "save" /\ gen[i].pc # "save") =>
            (gen[i].pc = "tips" /\ gen'[i].recipe # None)]_vars

\* a Generate that awaits its save, after a recipe and failed tips
C18_Witness ==
  \E i \in GenIds :
    /\ gen[i].pc = "save"
    /\ gen[i].recipe # None
    /\ gen[i].tips = None
    /\ gen[i].newItem # None

\* ------------------------------------------------------------------ C19
\* the records of the store and of the history
Records == UNION {Range(db[u]) : u \in Users} \cup Range(history)

\* tips t were generated for recipe r, or saved with it in the selected
\* record
TipsBelongTo(t, r) ==
  \/ t \in TipsFor(r.title, r.ingredients)
  \/ \E rec \in Records :
       /\ currentRecipeId = Some(rec.id)
       /\ rec.recipe = r
       /\ rec.chefTips = Some(t)

\* C19: when chef tips are present, a recipe is displayed and the tips
\* belong to it.
C19_TipsBelongToDisplayedRecipe ==
  (chefTips # None) =>
    /\ generatedRecipe # None
    /\ TipsBelongTo(Val(chefTips), Val(generatedRecipe))

\* ------------------------------------------------------------------ C20
\* C20: when the selection is set, a recipe is displayed and it is the
\* recipe of the saved record with that identifier.
C20_SelectionIsDisplayedRecord ==
  (currentRecipeId # None) =>
    /\ generatedRecipe # None
    /\ \E rec \in Records :
         /\ rec.id = Val(currentRecipeId)
         /\ rec.recipe = Val(generatedRecipe)
====
